---- MODULE Spec2Model ----
(* Model of scripts/analyze_dynasty_format.py: the batch pipeline of main     *)
(* (resolve search paths, find_save_files, analyze_save_file per archive,    *)
(* print_analysis_summary) over a small file system.                         *)
EXTENDS Integers, Sequences, FiniteSets, TLC

VARIABLES
  pc,            \* position of main: "start", "find", "loop", "summary", "done"
  argv,          \* sys.argv[1:]
  exists,        \* the default directories that exist on disk
  mtime,         \* st_mtime of every archive main has stat'ed (0: not stat'ed)
  content,       \* what every archive main has opened holds (Unread: not opened)
  search_paths,  \* main's search_paths
  save_files,    \* main's save_files
  idx,           \* position of the for loop over save_files (1-based)
  analyses,      \* main's analyses list
  reads,         \* the member names handed to zf.read, one entry per call
  out,           \* everything printed to standard output, in order
  exit_code      \* value main returns to sys.exit (NoExit: still running)

vars == <<pc, argv, exists, mtime, content, search_paths, save_files, idx,
          analyses, reads, out, exit_code>>

-----------------------------------------------------------------------------
(* Bounds *)
MaxArgs == 1
MaxMtime == 2
MaxMembers == 3
MaxElems == 2

-----------------------------------------------------------------------------
(* Values *)
None == "<None>"
NoExit == 0 - 1

DIADOCHI_NATIONS == {"NATION_SELEUCUS", "NATION_ANTIGONUS", "NATION_PTOLEMY"}

ModernDynasties == {"DYNASTY_SELEUCID", "DYNASTY_ANTIGONID", "DYNASTY_PTOLEMY"}

\* Variant: two entries of the table are exchanged.
EXPECTED_MAPPINGS_Exchanged ==
  [n \in DIADOCHI_NATIONS |->
     CASE n = "NATION_SELEUCUS"  -> <<"NATION_GREECE", "DYNASTY_SELEUCID">>
       [] n = "NATION_ANTIGONUS" -> <<"NATION_GREECE", "DYNASTY_PTOLEMY">>
       [] n = "NATION_PTOLEMY"   -> <<"NATION_GREECE", "DYNASTY_ANTIGONID">>]

EXPECTED_MAPPINGS ==
  [n \in DIADOCHI_NATIONS |->
     CASE n = "NATION_SELEUCUS"  -> <<"NATION_GREECE", "DYNASTY_SELEUCID">>
       [] n = "NATION_ANTIGONUS" -> <<"NATION_GREECE", "DYNASTY_ANTIGONID">>
       [] n = "NATION_PTOLEMY"   -> <<"NATION_GREECE", "DYNASTY_PTOLEMY">>]

\* One printed line (or the part of a line one print call produces).
Line(kind, file, s1, s2, n) ==
  [kind |-> kind, file |-> file, s1 |-> s1, s2 |-> s2, n |-> n]

-----------------------------------------------------------------------------
(* The file system: of the four default directories, home/Save and lib/Save  *)
(* hold archives and may be on disk; the other two never are.               *)
default_paths == <<"home/Save", "home/Saves", "lib/Save", "lib/Saves">>

Entries ==
  { [path |-> "home/Save",           parent |-> "",              name |-> "Save",      suffix |-> "",     kind |-> "dir"],
    [path |-> "home/Save/a.zip",     parent |-> "home/Save",     name |-> "a.zip",     suffix |-> ".zip", kind |-> "file"],
    [path |-> "home/Save/old",       parent |-> "home/Save",     name |-> "old",       suffix |-> "",     kind |-> "dir"],
    [path |-> "home/Save/old/b.zip", parent |-> "home/Save/old", name |-> "b.zip",     suffix |-> ".zip", kind |-> "file"],
    [path |-> "home/Save/notes.txt", parent |-> "home/Save",     name |-> "notes.txt", suffix |-> ".txt", kind |-> "file"],
    [path |-> "lib/Save",            parent |-> "",              name |-> "Save",      suffix |-> "",     kind |-> "dir"],
    [path |-> "lib/Save/c.zip",      parent |-> "lib/Save",      name |-> "c.zip",     suffix |-> ".zip", kind |-> "file"] }

Paths == {e.path : e \in Entries}
Entry(p) == CHOOSE e \in Entries : e.path = p
ArchivePaths == {e.path : e \in {x \in Entries : x.suffix = ".zip"}}
ArgChoices == {"home/Save", "lib/Save/c.zip", "home/Save/notes.txt"}
\* The directories that may be on disk.
Roots == {e.path : e \in {x \in Entries : x.parent = ""}}

RECURSIVE RootOf(_)
RootOf(p) == IF Entry(p).parent = "" THEN p ELSE RootOf(Entry(p).parent)

RECURSIVE IsUnder(_, _)
IsUnder(p, d) ==
  /\ Entry(p).parent # ""
  /\ (Entry(p).parent = d \/ IsUnder(Entry(p).parent, d))

\* Path.exists(): an entry is on disk exactly when its top directory is.
PathExists(ex, p) == p \in Paths /\ RootOf(p) \in ex
\* Path.name
PathName(p) == Entry(p).name

-----------------------------------------------------------------------------
(* Sequence helpers *)
Range(s) == {s[i] : i \in 1..Len(s)}

RECURSIVE Concat(_)
Concat(ss) == IF ss = <<>> THEN <<>> ELSE Head(ss) \o Concat(Tail(ss))

SeqsUpTo(S, n) == UNION {[1..k -> S] : k \in 0..n}

Perms(S) == {s \in [1..Cardinality(S) -> S] : Range(s) = S}

\* str.endswith
EndsWith(s, suf) ==
  /\ Len(s) >= Len(suf)
  /\ SubSeq(s, Len(s) - Len(suf) + 1, Len(s)) = suf

-----------------------------------------------------------------------------
(* Archives and documents *)

\* Member names are character sequences, so that endswith is computed.
GameXml == <<"g","a","m","e",".","x","m","l">>
DotXml == <<".","x","m","l">>
MemberNames ==
  { GameXml,
    <<"a",".","x","m","l">>,
    <<"b",".","x","m","l">>,
    <<"r",".","t","x","t">>,
    <<"g","a","m","e","x","m","l">> }

\* An element of the parsed tree, below the root, with its attributes
\* (None: attribute absent).
Elem(tag, nation, dynasty) ==
  [tag |-> tag, ID |-> "0", Name |-> "P", Nation |-> nation, Dynasty |-> dynasty]

\* The parsed tree: root attributes and the descendants in document order.
Doc(version, elems) ==
  [GameId |-> "g", Version |-> version, SaveDate |-> None, elems |-> elems]

\* The bytes of a member: whether they decode as UTF-8, the length of the
\* decoded text (0 or positive), whether the text is well-formed markup and
\* the tree it parses to.
Data(utf8, len, wf, doc) == [utf8 |-> utf8, len |-> len, wf |-> wf, doc |-> doc]
BadBytes == Data(FALSE, 1, FALSE, Doc(None, <<>>))
EmptyBytes == Data(TRUE, 0, FALSE, Doc(None, <<>>))
MalformedBytes == Data(TRUE, 1, FALSE, Doc(None, <<>>))
GoodBytes(doc) == Data(TRUE, 1, TRUE, doc)

Member(name, data) == [name |-> name, data |-> data]
Archive(openable, members) == [openable |-> openable, members |-> members]
Corrupt == Archive(FALSE, <<>>)
Save(doc) == Archive(TRUE, <<Member(GameXml, GoodBytes(doc))>>)

\* zf.namelist()
namelist(ar) == [i \in 1..Len(ar.members) |-> ar.members[i].name]

\* zf.read(name): the bytes of the member of that name.
zf_read(ar, name) ==
  (CHOOSE m \in Range(ar.members) : m.name = name).data

-----------------------------------------------------------------------------
(* extract_xml_from_save *)

\* Optional[str]: None, or a text.
NoText == [isNone |-> TRUE, len |-> 0, wf |-> FALSE, doc |-> Doc(None, <<>>)]
Text(d) == [isNone |-> FALSE, len |-> d.len, wf |-> d.wf, doc |-> d.doc]

\* zf.read(name).decode('utf-8'), inside the try block: a decode error is
\* caught by the except clause, which prints and returns None.
ReadAndDecode(save_name, ar, name) ==
  IF zf_read(ar, name).utf8
    THEN [text |-> Text(zf_read(ar, name)), msgs |-> <<>>, read |-> <<name>>]
    ELSE [text |-> NoText,
          msgs |-> <<Line("error_reading", save_name, "decode", "", 0)>>,
          read |-> <<name>>]

\* Variant: game.xml is not preferred.
SelectMember_FirstXml(file_list) ==
  LET xml_files == SelectSeq(file_list, LAMBDA f : EndsWith(f, DotXml))
  IN  IF xml_files # <<>> THEN <<xml_files[1]>> ELSE <<>>

\* The member name extract_xml_from_save reads, as a sequence of 0 or 1 names.
SelectMember(file_list) ==
  LET xml_files == SelectSeq(file_list, LAMBDA f : EndsWith(f, DotXml))
  IN  IF GameXml \in Range(file_list) THEN <<GameXml>>
      ELSE IF xml_files # <<>> THEN <<xml_files[1]>>
      ELSE <<>>

extract_xml_from_save(save_name, ar) ==
  IF ~ar.openable
    THEN [text |-> NoText,
          msgs |-> <<Line("error_reading", save_name, "open", "", 0)>>,
          read |-> <<>>]
    ELSE LET sel == SelectMember(namelist(ar))
         IN  IF sel # <<>>
               THEN ReadAndDecode(save_name, ar, sel[1])
               ELSE [text |-> NoText,
                     msgs |-> <<Line("warning_no_xml", save_name, "", "", 0)>>,
                     read |-> <<>>]

-----------------------------------------------------------------------------
(* analyze_save_file *)

\* SaveFileAnalysis.__init__
SaveFileAnalysis(filepath, st_mtime) ==
  [filepath |-> filepath,
   filename |-> PathName(filepath),
   file_mtime |-> st_mtime,
   game_id |-> None,
   game_version |-> None,
   save_date |-> None,
   players |-> <<>>,
   has_diadochi |-> FALSE,
   diadochi_as_nations |-> FALSE,
   diadochi_as_dynasties |-> FALSE]

\* The legacy test of a record.
IsLegacy(nation) == nation \in DIADOCHI_NATIONS

\* Variant: the nation is not tested.
IsModern_DynastyOnly(nation, dynasty) == dynasty \in ModernDynasties

\* The modern test of a record.
IsModern(nation, dynasty) ==
  nation = "NATION_GREECE" /\ dynasty \in ModernDynasties

\* root.findall('.//Player')
FindAllPlayers(doc) == SelectSeq(doc.elems, LAMBDA e : e.tag = "Player")

\* One iteration of the loop over the Player elements.
PlayerStep(analysis, player_elem) ==
  LET player_data == [id |-> player_elem.ID, name |-> player_elem.Name,
                      nation |-> player_elem.Nation, dynasty |-> player_elem.Dynasty]
      a1 == [analysis EXCEPT !.players = Append(@, player_data)]
      a2 == IF IsLegacy(player_data.nation)
              THEN [a1 EXCEPT !.has_diadochi = TRUE, !.diadochi_as_nations = TRUE]
              ELSE a1
  IN  IF IsModern(player_data.nation, player_data.dynasty)
        THEN [a2 EXCEPT !.has_diadochi = TRUE, !.diadochi_as_dynasties = TRUE]
        ELSE a2

RECURSIVE PlayerLoop(_, _)
PlayerLoop(analysis, elems) ==
  IF elems = <<>> THEN analysis
  ELSE PlayerLoop(PlayerStep(analysis, Head(elems)), Tail(elems))

\* Optional[SaveFileAnalysis] with what was printed and read on the way.
analyze_save_file(save_path, st_mtime, ar) ==
  LET analysis == SaveFileAnalysis(save_path, st_mtime)
      x == extract_xml_from_save(PathName(save_path), ar)
      xml_content == x.text
      root == xml_content.doc
      meta == [analysis EXCEPT !.game_id = root.GameId,
                               !.game_version = root.Version,
                               !.save_date = root.SaveDate]
  IN  IF xml_content.isNone \/ xml_content.len = 0
        THEN [ok |-> FALSE, analysis |-> analysis, msgs |-> x.msgs, read |-> x.read]
      ELSE IF ~xml_content.wf
        THEN [ok |-> FALSE, analysis |-> analysis,
              msgs |-> x.msgs \o <<Line("xml_parse_error", PathName(save_path), "parse", "", 0)>>,
              read |-> x.read]
      ELSE [ok |-> TRUE, analysis |-> PlayerLoop(meta, FindAllPlayers(root)),
            msgs |-> x.msgs, read |-> x.read]

-----------------------------------------------------------------------------
(* find_save_files *)

\* search_path.rglob('*.zip'): the entries below the directory whose name
\* ends in .zip, in the order the file system enumerates them (glob_order).
rglob_zip(search_path, glob_order) ==
  SelectSeq(glob_order, LAMBDA p : IsUnder(p, search_path) /\ Entry(p).suffix = ".zip")

\* Variant: the existence of the search path is not tested.
FilesOf_NoExistsTest(search_path, ex, glob_order) ==
  IF Entry(search_path).kind = "file" /\ Entry(search_path).suffix = ".zip"
    THEN <<search_path>>
  ELSE IF Entry(search_path).kind = "dir"
    THEN rglob_zip(search_path, glob_order)
  ELSE <<>>

\* The body of the loop over search_paths: what one search path contributes.
FilesOf(search_path, ex, glob_order) ==
  IF ~PathExists(ex, search_path) THEN <<>>
  ELSE IF Entry(search_path).kind = "file" /\ Entry(search_path).suffix = ".zip"
    THEN <<search_path>>
  ELSE IF Entry(search_path).kind = "dir"
    THEN rglob_zip(search_path, glob_order)
  ELSE <<>>

\* The line the loop prints for one search path.
MissingMsg(search_path, ex) ==
  IF ~PathExists(ex, search_path)
    THEN <<Line("path_does_not_exist", search_path, "", "", 0)>>
    ELSE <<>>

\* Variant: the list is not sorted.
SortByMtime_Unsorted(files, mt) == files

\* sorted(save_files, key=st_mtime): a stable sort, ascending.
RECURSIVE SortByMtime(_, _)
SortByMtime(files, mt) ==
  IF files = <<>> THEN <<>>
  ELSE LET n == Len(files)
           front == SortByMtime(SubSeq(files, 1, n - 1), mt)
           x == files[n]
           k == Cardinality({i \in 1..Len(front) : mt[front[i]] <= mt[x]})
       IN  SubSeq(front, 1, k) \o <<x>> \o SubSeq(front, k + 1, Len(front))

find_save_files(paths, ex, mt, glob_order) ==
  [files |-> SortByMtime(
               Concat([i \in 1..Len(paths) |-> FilesOf(paths[i], ex, glob_order)]), mt),
   msgs |-> Concat([i \in 1..Len(paths) |-> MissingMsg(paths[i], ex)])]

-----------------------------------------------------------------------------
(* print_analysis_summary *)

\* Python truthiness of an Optional[str].
Truthy(s) == s # None /\ s # ""

\* strftime('%Y-%m-%d %H:%M'): the time stamp cut to the minute.
FormatMinute(t) == t \div 60

\* player['dynasty'] or 'None'
RenderDynasty(dynasty) == IF Truthy(dynasty) THEN dynasty ELSE "None"

\* The test of the diadochi_players comprehension.
IsDiadochiPlayer(p) == IsLegacy(p.nation) \/ IsModern(p.nation, p.dynasty)

\* The lines printed for one listed player.
PlayerLines(fn, player) ==
  LET nation == player.nation
      dynasty == RenderDynasty(player.dynasty)
  IN  <<Line("player", fn, player.name, "", 0),
        Line("nation_dynasty", fn, nation, dynasty, 0)>>
      \o IF nation \in DIADOCHI_NATIONS
           THEN <<Line("format", fn, "LEGACY", "", 0),
                  Line("expected_modern", fn, EXPECTED_MAPPINGS[nation][1],
                       EXPECTED_MAPPINGS[nation][2], 0)>>
           ELSE <<Line("format", fn, "MODERN", "", 0)>>

\* The lines printed for one archive of the detailed breakdown.
BreakdownLines(analysis) ==
  LET fn == analysis.filename
      diadochi_players == SelectSeq(analysis.players, IsDiadochiPlayer)
  IN  <<Line("file", fn, "", "", 0),
        Line("modified", fn, "", "", FormatMinute(analysis.file_mtime))>>
      \o (IF Truthy(analysis.game_version)
            THEN <<Line("version", fn, analysis.game_version, "", 0)>> ELSE <<>>)
      \o (IF Truthy(analysis.save_date)
            THEN <<Line("save_date", fn, analysis.save_date, "", 0)>> ELSE <<>>)
      \o Concat([i \in 1..Len(diadochi_players) |-> PlayerLines(fn, diadochi_players[i])])

\* Variant: the test for both forms is missing.
FormatLines_NoBothTest(as_nations, as_dynasties) ==
  IF as_nations # <<>>
    THEN <<Line("all_legacy", "", "", "", 0)>>
  ELSE IF as_dynasties # <<>>
    THEN <<Line("all_modern", "", "", "", 0)>>
  ELSE <<>>

\* The warning or confirmation after the counts.
FormatLines(as_nations, as_dynasties) ==
  IF as_nations # <<>> /\ as_dynasties # <<>>
    THEN <<Line("both_formats", "", "", "", 0)>>
  ELSE IF as_nations # <<>>
    THEN <<Line("all_legacy", "", "", "", 0)>>
  ELSE IF as_dynasties # <<>>
    THEN <<Line("all_modern", "", "", "", 0)>>
  ELSE <<>>

\* Variant: archives that also show the modern form are left out.
CountAsNations_LegacyOnly(as) ==
  Len(SelectSeq(as, LAMBDA a : a.diadochi_as_nations /\ ~a.diadochi_as_dynasties))

\* The count of archives printed as 'Encoded as separate nations'.
CountAsNations(as) ==
  Len(SelectSeq(as, LAMBDA a : a.diadochi_as_nations))

\* The count of archives printed as 'Encoded as dynasties'.
CountAsDynasties(as) ==
  Len(SelectSeq(as, LAMBDA a : a.diadochi_as_dynasties))

print_analysis_summary(as) ==
  LET total == Len(as)
      with_diadochi == SelectSeq(as, LAMBDA a : a.has_diadochi)
      as_nations == SelectSeq(as, LAMBDA a : a.diadochi_as_nations)
      as_dynasties == SelectSeq(as, LAMBDA a : a.diadochi_as_dynasties)
  IN  <<Line("summary_header", "", "", "", 0),
        Line("total", "", "", "", total),
        Line("with_diadochi", "", "", "", Len(with_diadochi)),
        Line("as_nations", "", "", "", CountAsNations(as)),
        Line("as_dynasties", "", "", "", CountAsDynasties(as))>>
      \o FormatLines(as_nations, as_dynasties)
      \o (IF with_diadochi # <<>>
            THEN <<Line("breakdown_header", "", "", "", 0)>>
                 \o Concat([i \in 1..Len(with_diadochi) |-> BreakdownLines(with_diadochi[i])])
            ELSE <<>>)

-----------------------------------------------------------------------------
(* Inputs *)

Mtimes == {45 * k : k \in 1..MaxMtime}

Nations == DIADOCHI_NATIONS \cup {None, "NATION_GREECE", "NATION_ROME"}
Dynasties == ModernDynasties \cup {None, "", "DYNASTY_JULIAN"}

LegacyDoc == Doc("1.0", <<Elem("Player", "NATION_SELEUCUS", None)>>)
ModernDoc == Doc(None, <<Elem("Player", "NATION_GREECE", "DYNASTY_PTOLEMY")>>)
BothDoc ==
  Doc("1.0", <<Elem("Player", "NATION_ANTIGONUS", None),
               Elem("Team", None, None),
               Elem("Player", "NATION_GREECE", "DYNASTY_SELEUCID")>>)
PlainDoc ==
  Doc("", <<Elem("Team", None, None), Elem("Player", "NATION_ROME", "DYNASTY_JULIAN")>>)

\* The archives of the batch runs: one per way an archive can fail, and one
\* per combination of the two forms.
ArchiveSamples ==
  { Corrupt,
    Archive(TRUE, <<Member(<<"r",".","t","x","t">>, MalformedBytes)>>),
    Archive(TRUE, <<Member(GameXml, BadBytes)>>),
    Archive(TRUE, <<Member(GameXml, EmptyBytes)>>),
    Archive(TRUE, <<Member(GameXml, MalformedBytes)>>),
    Save(LegacyDoc), Save(ModernDoc), Save(BothDoc), Save(PlainDoc) }

\* The archives of the extraction runs: every listing of up to MaxMembers
\* members with distinct names.
MemberChoices ==
  {Member(n, d) : n \in MemberNames,
                  d \in {BadBytes, EmptyBytes, MalformedBytes, GoodBytes(LegacyDoc)}}
ListingArchives ==
  {Corrupt} \cup
  {Archive(TRUE, ms) :
     ms \in {m \in SeqsUpTo(MemberChoices, MaxMembers) :
               \A i, j \in 1..Len(m) : i # j => m[i].name # m[j].name}}

\* The archives of the classification runs: every document of up to MaxElems
\* elements below the root.
ElemChoices ==
  {Elem("Player", n, d) : n \in Nations, d \in Dynasties}
  \cup {Elem("Team", None, None)}
DocArchives == {Save(Doc(None, es)) : es \in SeqsUpTo(ElemChoices, MaxElems)}

-----------------------------------------------------------------------------
(* main *)

TypeOK ==
  /\ pc \in {"start", "find", "loop", "summary", "done"}
  /\ argv \in SeqsUpTo(ArgChoices, MaxArgs)
  /\ exists \subseteq Roots
  /\ exit_code \in {NoExit, 0, 1}
  /\ idx \in 1..(Len(save_files) + 1)

Start(args, ex) ==
  /\ pc = "start"
  /\ argv = args
  /\ exists = ex
  /\ mtime = [a \in ArchivePaths |-> 0]
  /\ content = [a \in ArchivePaths |-> <<>>]
  /\ search_paths = <<>>
  /\ save_files = <<>>
  /\ idx = 1
  /\ analyses = <<>>
  /\ reads = <<>>
  /\ out = <<>>
  /\ exit_code = NoExit

\* Any command line of up to MaxArgs paths, on any set of default directories.
Init ==
  \E args \in SeqsUpTo(ArgChoices, MaxArgs), ex \in SUBSET Roots :
    Start(args, ex)

\* One archive given on the command line.
InitOne == Start(<<"lib/Save/c.zip">>, {"lib/Save"})

\* Lines 192-216: the banner and the search paths.
ResolvePaths ==
  /\ pc = "start"
  /\ LET paths == IF Len(argv) > 0
                    THEN argv
                    ELSE SelectSeq(default_paths, LAMBDA p : PathExists(exists, p))
     IN  /\ search_paths' = paths
         /\ IF paths = <<>>
              THEN /\ out' = out \o <<Line("banner", "", "", "", 0),
                                      Line("no_save_directories", "", "", "", 0),
                                      Line("usage", "", "", "", 0)>>
                   /\ exit_code' = 1
                   /\ pc' = "done"
              ELSE /\ out' = out \o <<Line("banner", "", "", "", 0),
                                      Line("searching_in", "", "", "", 0)>>
                             \o [i \in 1..Len(paths) |-> Line("search_path", paths[i], "", "", 0)]
                   /\ exit_code' = exit_code
                   /\ pc' = "find"
  /\ UNCHANGED <<argv, exists, mtime, content, save_files, idx, analyses, reads>>

\* Lines 218-226: find_save_files and the test for an empty result. The time
\* stamps and the enumeration order of the file system are read here.
FindSaveFiles ==
  /\ pc = "find"
  /\ \E mt \in [ArchivePaths -> Mtimes], glob_order \in Perms(ArchivePaths) :
       LET found == find_save_files(search_paths, exists, mt, glob_order)
       IN  /\ save_files' = found.files
           /\ mtime' = [a \in ArchivePaths |->
                          IF a \in Range(found.files) THEN mt[a] ELSE 0]
           /\ IF found.files = <<>>
                THEN /\ out' = out \o found.msgs \o <<Line("no_save_files", "", "", "", 0)>>
                     /\ exit_code' = 1
                     /\ pc' = "done"
                ELSE /\ out' = out \o found.msgs
                               \o <<Line("found", "", "", "", Len(found.files)),
                                    Line("analyzing_header", "", "", "", 0)>>
                     /\ exit_code' = exit_code
                     /\ pc' = "loop"
  /\ idx' = 1
  /\ UNCHANGED <<argv, exists, content, search_paths, analyses, reads>>

\* Variant: the analyses share one player list.
MainAppend_SharedPlayers(as, analysis) ==
  [i \in 1..(Len(as) + 1) |->
     IF i <= Len(as) THEN [as[i] EXCEPT !.players = @ \o analysis.players]
                     ELSE analysis]

\* analyses.append(analysis)
MainAppend(as, analysis) == Append(as, analysis)

\* Variant: an analysis without a match counts as a failure.
StatusLine_NoMatchIsFailure(save_file, r) ==
  IF r.ok /\ r.analysis.has_diadochi
    THEN Line("status", PathName(save_file), "match", "", Len(r.analysis.players))
    ELSE Line("status", PathName(save_file), "failed", "", 0)

\* The progress line after the call.
StatusLine(save_file, r) ==
  IF r.ok
    THEN Line("status", PathName(save_file),
              IF r.analysis.has_diadochi THEN "match" ELSE "no_match", "",
              Len(r.analysis.players))
    ELSE Line("status", PathName(save_file), "failed", "", 0)

\* Lines 230-238: one iteration of the loop over save_files. The archive is
\* read here; an archive met a second time holds what it held the first time.
AnalyzeNext(samples) ==
  /\ pc = "loop"
  /\ idx <= Len(save_files)
  /\ LET save_file == save_files[idx]
     IN  \E ar \in (IF content[save_file] = <<>> THEN samples
                                                ELSE {content[save_file][1]}) :
           LET r == analyze_save_file(save_file, mtime[save_file], ar)
           IN  /\ content' = [content EXCEPT ![save_file] = <<ar>>]
               /\ analyses' = IF r.ok THEN MainAppend(analyses, r.analysis) ELSE analyses
               /\ reads' = reads \o [i \in 1..Len(r.read) |-> <<save_file, r.read[i]>>]
               /\ out' = out \o <<Line("analyzing", PathName(save_file), "", "", 0)>>
                             \o r.msgs \o <<StatusLine(save_file, r)>>
  /\ idx' = idx + 1
  /\ pc' = IF idx = Len(save_files) THEN "summary" ELSE "loop"
  /\ UNCHANGED <<argv, exists, mtime, search_paths, save_files, exit_code>>

\* Lines 240-243: the summary and the return.
PrintSummary ==
  /\ pc = "summary"
  /\ out' = out \o print_analysis_summary(analyses)
  /\ exit_code' = 0
  /\ pc' = "done"
  /\ UNCHANGED <<argv, exists, mtime, content, search_paths, save_files, idx,
                 analyses, reads>>

AnalyzeSample == AnalyzeNext(ArchiveSamples)
AnalyzeListing == AnalyzeNext(ListingArchives)
AnalyzeDoc == AnalyzeNext(DocArchives)

Next == ResolvePaths \/ FindSaveFiles \/ AnalyzeSample \/ PrintSummary
Spec == Init /\ [][Next]_vars

NextExtract == ResolvePaths \/ FindSaveFiles \/ AnalyzeListing \/ PrintSummary
SpecExtract == InitOne /\ [][NextExtract]_vars

NextClassify == ResolvePaths \/ FindSaveFiles \/ AnalyzeDoc \/ PrintSummary
SpecClassify == InitOne /\ [][NextClassify]_vars

-----------------------------------------------------------------------------
(* Properties *)

OutOfKind(k) == SelectSeq(out, LAMBDA l : l.kind = k)
Printed(k) == \E i \in 1..Len(out) : out[i].kind = k
Count(S) == Cardinality(S)

\* The last four characters of a member name are ".xml".
HasXmlSuffix(n) ==
  /\ Len(n) >= 4
  /\ n[Len(n) - 3] = "." /\ n[Len(n) - 2] = "x"
  /\ n[Len(n) - 1] = "m" /\ n[Len(n)] = "l"

IsGameXml(n) == n = <<"g","a","m","e",".","x","m","l">>

\* The position in the listing of the document of an archive (0: none).
DocumentIndex(ar) ==
  LET ms == ar.members
  IN  IF \E i \in 1..Len(ms) : IsGameXml(ms[i].name)
        THEN CHOOSE i \in 1..Len(ms) : IsGameXml(ms[i].name)
      ELSE IF \E i \in 1..Len(ms) : HasXmlSuffix(ms[i].name)
        THEN CHOOSE i \in 1..Len(ms) :
               /\ HasXmlSuffix(ms[i].name)
               /\ \A j \in 1..(i - 1) : ~HasXmlSuffix(ms[j].name)
      ELSE 0

\* The archive cannot be opened, holds no document, or holds one that does
\* not decode, is empty or does not parse.
ArchiveFails(ar) ==
  \/ ~ar.openable
  \/ DocumentIndex(ar) = 0
  \/ LET d == ar.members[DocumentIndex(ar)].data
     IN  ~d.utf8 \/ d.len = 0 \/ ~d.wf

\* The document of an archive that does not fail.
DocumentOf(ar) == ar.members[DocumentIndex(ar)].data.doc

ContentOf(i) == content[save_files[i]][1]
Processed == 1..(IF pc = "loop" THEN idx - 1
                 ELSE IF pc \in {"summary", "done"} THEN Len(save_files) ELSE 0)
Failed == {i \in Processed : ArchiveFails(ContentOf(i))}

\* C1: whatever archives fail, main passes every archive of the list to
\* analyze_save_file exactly once and in order, keeps one analysis per archive
\* that did not fail, prints one '(failed)' marker per archive that failed,
\* and returns 0.
C1_FailureIsolation ==
  (pc \in {"loop", "summary", "done"} /\ save_files # <<>>) =>
    LET status == OutOfKind("status")
        failed == Failed
        n == Count(Processed)
    IN  /\ OutOfKind("analyzing")
             = [i \in 1..n |-> Line("analyzing", PathName(save_files[i]), "", "", 0)]
        /\ Len(status) = n
        /\ \A i \in 1..n : (status[i].s1 = "failed") <=> (i \in failed)
        /\ Len(analyses) = n - Count(failed)
        /\ Len(SelectSeq(status, LAMBDA l : l.s1 = "failed")) = Count(failed)
        /\ (pc = "done" => exit_code = 0 /\ n = Len(save_files))

\* Three archives, one unreadable, two analyzed of which one shows the legacy
\* form.
C1_Witness ==
  /\ pc = "done" /\ exit_code = 0
  /\ Len(save_files) = 3 /\ Count(Failed) = 1 /\ Len(analyses) = 2
  /\ \E i \in 1..3 : ~ContentOf(i).openable
  /\ Count({i \in 1..2 : analyses[i].diadochi_as_nations}) = 1

\* The archives the command line, or the default directories, lead to.
Discoverable ==
  LET paths == IF argv # <<>> THEN Range(argv) ELSE Range(default_paths)
  IN  {a \in ArchivePaths :
         /\ RootOf(a) \in exists
         /\ \E p \in paths : p = a \/ (p \in Paths /\ IsUnder(a, p))}

\* C2: main returns 1 exactly when no path is given and no default directory
\* exists, or when the search paths hold no archive; otherwise it returns 0.
\* When it returns 1 nothing was analyzed and no summary was printed.
C2_ExitCode ==
  /\ (pc # "done") => exit_code = NoExit
  /\ (pc = "done") =>
       /\ exit_code = IF \/ (argv = <<>> /\ exists \cap Range(default_paths) = {})
                          \/ Discoverable = {}
                         THEN 1 ELSE 0
       /\ exit_code = 1 =>
            /\ analyses = <<>> /\ reads = <<>>
            /\ ~Printed("analyzing") /\ ~Printed("summary_header")

\* A path is given, it holds no archive, and main returns 1.
C2_Witness ==
  /\ pc = "done" /\ exit_code = 1 /\ argv # <<>>
  /\ \A i \in 1..Len(argv) : RootOf(argv[i]) \in exists

\* C3: the BOTH FORMATS warning is printed exactly when some analyzed archive
\* shows the legacy form and some analyzed archive, possibly the same, shows
\* the modern form; with only one form the matching confirmation is printed;
\* with neither, none of the three lines.
C3_BothFormats ==
  (pc = "done" /\ exit_code = 0) =>
    LET legacy == \E i \in 1..Len(analyses) : analyses[i].diadochi_as_nations
        modern == \E i \in 1..Len(analyses) : analyses[i].diadochi_as_dynasties
    IN  /\ Printed("both_formats") <=> (legacy /\ modern)
        /\ Printed("all_legacy") <=> (legacy /\ ~modern)
        /\ Printed("all_modern") <=> (modern /\ ~legacy)
        /\ Len(OutOfKind("both_formats")) + Len(OutOfKind("all_legacy"))
             + Len(OutOfKind("all_modern")) <= 1

\* The warning is printed for a batch whose only archive shows both forms.
C3_Witness ==
  /\ pc = "done" /\ Printed("both_formats")
  /\ Len(analyses) = 1

-----------------------------------------------------------------------------
(* The two forms, as the claims state them *)

LegacySet == {"NATION_SELEUCUS", "NATION_ANTIGONUS", "NATION_PTOLEMY"}
ModernSet == {"DYNASTY_SELEUCID", "DYNASTY_ANTIGONID", "DYNASTY_PTOLEMY"}
LegacyRule(nation) == nation \in LegacySet
ModernRule(nation, dynasty) == nation = "NATION_GREECE" /\ dynasty \in ModernSet

\* The Player elements of a document, in document order.
PlayersOf(doc) == SelectSeq(doc.elems, LAMBDA e : e.tag = "Player")
\* Those of them that satisfy one of the two rules.
MatchingOf(doc) ==
  SelectSeq(PlayersOf(doc), LAMBDA e : LegacyRule(e.Nation) \/ ModernRule(e.Nation, e.Dynasty))
DocLegacy(doc) == \E e \in Range(PlayersOf(doc)) : LegacyRule(e.Nation)
DocModern(doc) == \E e \in Range(PlayersOf(doc)) : ModernRule(e.Nation, e.Dynasty)

\* The positions of save_files whose archive was analyzed, in order.
Analyzed == SelectSeq([i \in 1..Count(Processed) |-> i], LAMBDA i : i \notin Failed)
DocAt(i) == DocumentOf(ContentOf(i))

\* C4: an analysis holds the Player records of its document in document
\* order; it shows the legacy form exactly when some record's nation is in
\* the legacy set, the modern form exactly when some record has nation
\* NATION_GREECE and a dynasty of the modern set, and a match exactly when it
\* shows one of the two forms.
C4_Classification ==
  /\ Len(analyses) = Len(Analyzed)
  /\ \A k \in 1..Len(analyses) :
       LET a == analyses[k]
           P == PlayersOf(DocAt(Analyzed[k]))
       IN  /\ a.players = [i \in 1..Len(P) |->
                             [id |-> P[i].ID, name |-> P[i].Name,
                              nation |-> P[i].Nation, dynasty |-> P[i].Dynasty]]
           /\ a.diadochi_as_nations <=> \E i \in 1..Len(P) : P[i].Nation \in LegacySet
           /\ a.diadochi_as_dynasties <=>
                \E i \in 1..Len(P) : P[i].Nation = "NATION_GREECE" /\ P[i].Dynasty \in ModernSet
           /\ a.has_diadochi <=> (a.diadochi_as_nations \/ a.diadochi_as_dynasties)
           /\ (P = <<>>) =>
                /\ a.players = <<>>
                /\ ~a.has_diadochi /\ ~a.diadochi_as_nations /\ ~a.diadochi_as_dynasties

\* A document of two Player records, one without a nation and one of the
\* modern form.
C4_Witness ==
  /\ Len(analyses) = 1
  /\ Len(analyses[1].players) = 2
  /\ analyses[1].players[1].nation = None
  /\ analyses[1].diadochi_as_dynasties /\ ~analyses[1].diadochi_as_nations

\* C5 as stated: the two format counts are the numbers of archives that show
\* the legacy form only and the modern form only.
C5_OnlyCounts ==
  (pc = "done" /\ exit_code = 0) =>
    /\ OutOfKind("total")[1].n = Len(Analyzed)
    /\ OutOfKind("with_diadochi")[1].n
         = Count({i \in Range(Analyzed) : DocLegacy(DocAt(i)) \/ DocModern(DocAt(i))})
    /\ OutOfKind("as_nations")[1].n
         = Count({i \in Range(Analyzed) : DocLegacy(DocAt(i)) /\ ~DocModern(DocAt(i))})
    /\ OutOfKind("as_dynasties")[1].n
         = Count({i \in Range(Analyzed) : DocModern(DocAt(i)) /\ ~DocLegacy(DocAt(i))})

\* C5: the total is the number of analyzed archives, the 'with Diadochi'
\* count the number of them with a match, the 'separate nations' count the
\* number of them that show the legacy form and the 'dynasties' count the
\* number of them that show the modern form; an archive that shows both forms
\* is counted in both.
C5_Counts ==
  (pc = "done" /\ exit_code = 0) =>
    /\ OutOfKind("total")[1].n = Len(Analyzed)
    /\ OutOfKind("with_diadochi")[1].n
         = Count({i \in Range(Analyzed) : DocLegacy(DocAt(i)) \/ DocModern(DocAt(i))})
    /\ OutOfKind("as_nations")[1].n
         = Count({i \in Range(Analyzed) : DocLegacy(DocAt(i))})
    /\ OutOfKind("as_dynasties")[1].n
         = Count({i \in Range(Analyzed) : DocModern(DocAt(i))})

\* A summary of a batch that holds an archive with both forms and an archive
\* with one.
C5_Witness ==
  /\ pc = "done" /\ exit_code = 0
  /\ \E i \in Range(Analyzed) : DocLegacy(DocAt(i)) /\ DocModern(DocAt(i))
  /\ \E i \in Range(Analyzed) : DocLegacy(DocAt(i)) /\ ~DocModern(DocAt(i))

\* C6: the member read is game.xml when the listing holds it, wherever it
\* stands; otherwise the first member whose name ends in .xml; with no such
\* member nothing is read, a warning names the archive and the archive is
\* dropped.
C6_DocumentSelection ==
  /\ Len(analyses) = Len(Analyzed)
  /\ \A i \in Processed :
    LET ar == ContentOf(i)
        names == [k \in 1..Len(ar.members) |-> ar.members[k].name]
        first_xml == CHOOSE k \in 1..Len(names) :
                       HasXmlSuffix(names[k]) /\ \A j \in 1..(k - 1) : ~HasXmlSuffix(names[j])
    IN  ar.openable =>
          IF \E k \in 1..Len(names) : IsGameXml(names[k])
            THEN reads = <<<<save_files[i], <<"g","a","m","e",".","x","m","l">>>>>>
          ELSE IF \E k \in 1..Len(names) : HasXmlSuffix(names[k])
            THEN reads = <<<<save_files[i], names[first_xml]>>>>
          ELSE /\ reads = <<>>
               /\ analyses = <<>>
               /\ Len(OutOfKind("warning_no_xml")) = 1
               /\ OutOfKind("warning_no_xml")[1].file = PathName(save_files[i])

\* game.xml is the last of three members, after another .xml member, and is
\* the one read.
C6_Witness ==
  /\ 1 \in Processed
  /\ Len(ContentOf(1).members) = 3
  /\ HasXmlSuffix(ContentOf(1).members[1].name)
  /\ IsGameXml(ContentOf(1).members[3].name)
  /\ reads = <<<<save_files[1], ContentOf(1).members[3].name>>>>

\* The dynasty as the breakdown shows it.
Shown(dynasty) == IF dynasty \in {None, ""} THEN "None" ELSE dynasty

\* The positions of save_files whose archive has a match, in order.
Matched == SelectSeq(Analyzed, LAMBDA i : DocLegacy(DocAt(i)) \/ DocModern(DocAt(i)))

\* C7: save_files is in ascending order of modification time; the progress
\* lines follow that order; every progress line precedes the summary; the
\* breakdown lists the archives with a match in that same order and the
\* records of each of them in document order.
C7_Ordering ==
  LET analyzing == OutOfKind("analyzing")
      status == OutOfKind("status")
      files == OutOfKind("file")
      records == OutOfKind("nation_dynasty")
      matched == Matched
  IN  /\ \A i, j \in 1..Len(save_files) :
           i < j => mtime[save_files[i]] <= mtime[save_files[j]]
      /\ [k \in 1..Len(analyzing) |-> analyzing[k].file]
           = [k \in 1..Count(Processed) |-> PathName(save_files[k])]
      /\ [k \in 1..Len(status) |-> status[k].file]
           = [k \in 1..Count(Processed) |-> PathName(save_files[k])]
      /\ \A j \in 1..Len(out) :
           out[j].kind = "summary_header" =>
             \A i \in j..Len(out) : out[i].kind \notin {"analyzing", "status"}
      /\ (pc = "done" /\ exit_code = 0) =>
           /\ [k \in 1..Len(files) |-> files[k].file]
                = [k \in 1..Len(matched) |-> PathName(save_files[matched[k]])]
           /\ [k \in 1..Len(records) |-> <<records[k].file, records[k].s1, records[k].s2>>]
                = Concat([k \in 1..Len(matched) |->
                     LET listed == MatchingOf(DocAt(matched[k]))
                     IN  [m \in 1..Len(listed) |->
                            <<PathName(save_files[matched[k]]),
                              listed[m].Nation, Shown(listed[m].Dynasty)>>]])

\* Three archives with two modification times, the oldest one found last,
\* and two of them in the breakdown, one with two records.
C7_Witness ==
  /\ pc = "done" /\ exit_code = 0
  /\ Len(save_files) = 3
  /\ save_files[1] = "lib/Save/c.zip"
  /\ mtime[save_files[1]] < mtime[save_files[3]]
  /\ Len(Matched) = 2
  /\ Len(OutOfKind("nation_dynasty")) = 3

\* C8 as stated: every '(failed)' marker follows a message that names the
\* archive and states the cause.
C8_FailureReported ==
  \A k \in 1..Len(out) :
    (out[k].kind = "status" /\ out[k].s1 = "failed") =>
      /\ k > 1
      /\ out[k - 1].kind \in {"error_reading", "warning_no_xml", "xml_parse_error"}
      /\ out[k - 1].file = out[k].file

\* C9: the breakdown lists exactly the records that satisfy one of the two
\* rules, each with one label: LEGACY with the expected modern pair of the
\* table when the nation is in the legacy set, MODERN when the nation is
\* NATION_GREECE and the dynasty is in the modern set; no record satisfies
\* both rules; an absent dynasty is shown as None.
C9_Labelling ==
  (pc = "done" /\ exit_code = 0) =>
    LET M == Concat([k \in 1..Len(Matched) |-> MatchingOf(DocAt(Matched[k]))])
        ND == OutOfKind("nation_dynasty")
        F == OutOfKind("format")
        LG == SelectSeq(M, LAMBDA e : LegacyRule(e.Nation))
        E == OutOfKind("expected_modern")
        pair(n) == CASE n = "NATION_SELEUCUS"  -> <<"NATION_GREECE", "DYNASTY_SELEUCID">>
                     [] n = "NATION_ANTIGONUS" -> <<"NATION_GREECE", "DYNASTY_ANTIGONID">>
                     [] n = "NATION_PTOLEMY"   -> <<"NATION_GREECE", "DYNASTY_PTOLEMY">>
    IN  /\ Len(ND) = Len(M) /\ Len(F) = Len(M) /\ Len(E) = Len(LG)
        /\ \A i \in 1..Len(M) :
             /\ ND[i].s1 = M[i].Nation
             /\ (M[i].Dynasty = None) => ND[i].s2 = "None"
             /\ (M[i].Dynasty \notin {None, ""}) => ND[i].s2 = M[i].Dynasty
             /\ F[i].s1 \in {"LEGACY", "MODERN"}
             /\ (F[i].s1 = "LEGACY") <=> LegacyRule(M[i].Nation)
             /\ (F[i].s1 = "MODERN") <=> ModernRule(M[i].Nation, M[i].Dynasty)
             /\ ~(LegacyRule(M[i].Nation) /\ ModernRule(M[i].Nation, M[i].Dynasty))
        /\ \A i \in 1..Len(LG) :
             /\ <<E[i].s1, E[i].s2>> = pair(LG[i].Nation)
             /\ ModernRule(E[i].s1, E[i].s2)

\* A document with a legacy record without dynasty, then a modern record.
C9_Witness ==
  /\ pc = "done" /\ exit_code = 0
  /\ Len(OutOfKind("format")) = 2
  /\ OutOfKind("format")[1].s1 = "LEGACY"
  /\ OutOfKind("nation_dynasty")[1].s2 = "None"
  /\ OutOfKind("expected_modern")[1].s2 = "DYNASTY_ANTIGONID"
  /\ OutOfKind("format")[2].s1 = "MODERN"

\* The analysis of an archive, from the archive alone.
OwnAnalysis(p) ==
  LET doc == DocumentOf(content[p][1])
      P == PlayersOf(doc)
  IN  [filepath |-> p,
       filename |-> PathName(p),
       file_mtime |-> mtime[p],
       game_id |-> doc.GameId,
       game_version |-> doc.Version,
       save_date |-> doc.SaveDate,
       players |-> [i \in 1..Len(P) |->
                      [id |-> P[i].ID, name |-> P[i].Name,
                       nation |-> P[i].Nation, dynasty |-> P[i].Dynasty]],
       has_diadochi |-> DocLegacy(doc) \/ DocModern(doc),
       diadochi_as_nations |-> DocLegacy(doc),
       diadochi_as_dynasties |-> DocModern(doc)]

C10_OwnDocument ==
  analyses = [k \in 1..Len(Analyzed) |-> OwnAnalysis(save_files[Analyzed[k]])]

C10_Frozen ==
  \A k \in 1..Len(analyses) : Len(analyses') >= k /\ analyses'[k] = analyses[k]

\* C10: every analysis of the list is the analysis of its own archive alone,
\* whatever the other archives and its place in the list, and no step of
\* main, the later analyses and the summary included, changes an analysis
\* that is in the list.
C10_Immutable == []C10_OwnDocument /\ [][C10_Frozen]_vars

\* Three analyses are in the list and the summary has been printed.
C10_Witness ==
  /\ pc = "done" /\ exit_code = 0
  /\ Len(analyses) = 3
  /\ Printed("breakdown_header")

====
